---- MODULE Spec2Model ----
(***************************************************************************)
(* Model of the quiz application in src/src/App.tsx (types in              *)
(* src/unnamed/part_000): the question bank loader, the text normalizer,   *)
(* the sampler (the `filtered` memo), the session state (idx, selected,    *)
(* fillValue, revealed, isCorrect), the progress store and its copy in     *)
(* localStorage.                                                           *)
(*                                                                         *)
(* React runs the component as a loop: an event handler queues state       *)
(* updates, the component function is rendered with the new state, the     *)
(* passive effects whose dependencies changed run, and the state they set  *)
(* causes another render, until nothing changes.  `phase` is the position  *)
(* in that loop; user events are taken only in phase "idle".               *)
(*                                                                         *)
(* Optional values (number | null, T | undefined) are sequences of length  *)
(* at most one: <<>> is null/undefined and <<x>> is x.  Strings that the   *)
(* program looks into are sequences of characters.  Indexes are 0-based as *)
(* in the source; At(s, i) reads s[i].                                     *)
(***************************************************************************)
EXTENDS Integers, Sequences, FiniteSets, TLC

(***************************************************************************)
(* Bounds of the model.                                                    *)
(***************************************************************************)
\* total number of gradings recorded in the store that a run may reach
MaxGradings == 2
\* longest text typed into the field when the normalizer is checked
MaxTextLen == 4
\* largest value sessionKey takes (one filter change each, after the mount)
MaxSessionKey == 2
\* number of question ids that may carry a key in progress.starred
MaxStarred == 1
\* Math.random() returns one of 0/RandDen, 1/RandDen, .. (RandDen-1)/RandDen
RandDen == 3
\* the values Math.random() returns repeat with this period
RandPeriod == 2

(***************************************************************************)
(* Generic helpers for the JavaScript values used.                         *)
(***************************************************************************)
None == <<>>
Some(x) == <<x>>

\* arr[i] with a 0-based index; undefined (None) outside the array
At(arr, i) == IF i >= 0 /\ i < Len(arr) THEN Some(arr[i + 1]) ELSE None

\* the empty object {}
EmptyMap == [k \in {} |-> 0]

\* m[k] ?? dflt
GetOr(m, k, dflt) == IF k \in DOMAIN m THEN m[k] ELSE dflt

\* { ...m, [k]: v }
Put(m, k, v) == [x \in (DOMAIN m) \cup {k} |-> IF x = k THEN v ELSE m[x]]

RECURSIVE Flatten(_)
Flatten(ss) == IF ss = <<>> THEN <<>> ELSE Head(ss) \o Flatten(Tail(ss))

Min(a, b) == IF a <= b THEN a ELSE b

(***************************************************************************)
(* Characters.  A string is a sequence of these tokens; the tokens stand   *)
(* for: a b (lower-case letters), A (upper-case letter), a_grave and       *)
(* A_grave (the precomposed letters U+00E0 and U+00C0), comb_grave (the    *)
(* combining mark U+0300), 1 (a digit), - (punctuation), the space and     *)
(* tab (U+0009).                                                           *)
(***************************************************************************)
Chars == {"a", "b", "A", "a_grave", "A_grave", "comb_grave", "1", "-", " ", "tab"}

\* what the regular expression class \s and String.prototype.trim treat as blank
WhiteSpace == {" ", "tab"}
\* the class [a-z0-9]
AlphaNum == {"a", "b", "1"}
\* the class [U+0300-U+036F]
CombiningMarks == {"comb_grave"}

\* one character of String.prototype.toLowerCase
LowerChar(c) ==
    CASE c = "A" -> "a"
      [] c = "A_grave" -> "a_grave"
      [] OTHER -> c

\* one character of String.prototype.normalize("NFD")
NFDChar(c) ==
    CASE c = "a_grave" -> <<"a", "comb_grave">>
      [] c = "A_grave" -> <<"A", "comb_grave">>
      [] OTHER -> <<c>>

RECURSIVE TrimStart(_)
TrimStart(s) ==
    IF s # <<>> /\ Head(s) \in WhiteSpace THEN TrimStart(Tail(s)) ELSE s

RECURSIVE TrimEnd(_)
TrimEnd(s) ==
    IF s # <<>> /\ s[Len(s)] \in WhiteSpace
    THEN TrimEnd(SubSeq(s, 1, Len(s) - 1))
    ELSE s

\* String.prototype.trim
Trim(s) == TrimEnd(TrimStart(s))

ToLowerCase(s) == [i \in 1..Len(s) |-> LowerChar(s[i])]

NFD(s) == Flatten([i \in 1..Len(s) |-> NFDChar(s[i])])

\* .replace(/[U+0300-U+036F]/g, "")
StripMarks(s) == SelectSeq(s, LAMBDA c : c \notin CombiningMarks)

\* .replace(/[^a-z0-9\s]/g, " ")
ReplaceOther(s) ==
    [i \in 1..Len(s) |-> IF s[i] \in AlphaNum \cup WhiteSpace THEN s[i] ELSE " "]

RECURSIVE CollapseSpace(_)
\* .replace(/\s+/g, " ")
CollapseSpace(s) ==
    IF s = <<>> THEN <<>>
    ELSE IF Head(s) \in WhiteSpace
         THEN <<" ">> \o CollapseSpace(TrimStart(s))
         ELSE <<Head(s)>> \o CollapseSpace(Tail(s))

\* mutant: the last trim() is missing
normalize_NoFinalTrim(s) ==
    CollapseSpace(ReplaceOther(StripMarks(NFD(ToLowerCase(Trim(s))))))

\* normalize (the chain of calls in source order)
normalize(s) ==
    Trim(CollapseSpace(ReplaceOther(StripMarks(NFD(ToLowerCase(Trim(s)))))))

(***************************************************************************)
(* Question bank loader.                                                   *)
(***************************************************************************)
QTypes == {"fill_in_blank", "multiple_choice_one_correct",
           "multiple_choice_best_answer", "true_false"}

ChoiceTypes == {"multiple_choice_one_correct", "multiple_choice_best_answer",
                "true_false"}

RECURSIVE FindIndexFrom(_, _)
\* position (0-based) of the first flagged option at or after k, -1 if none
FindIndexFrom(options, k) ==
    IF k >= Len(options) THEN -1
    ELSE IF options[k + 1].is_correct THEN k
         ELSE FindIndexFrom(options, k + 1)

\* q.options.findIndex((o) => o.is_correct)
FindIndex(options) == FindIndexFrom(options, 0)

\* the body of the raw.map callback of processQuestions
ProcessQuestion(q) ==
    LET base == [id |-> ToString(q.id), type |-> q.type,
                 typeLabel |-> q.type_description, prompt |-> q.question,
                 explanation |-> q.explanation,
                 options |-> None, correctIndex |-> None,
                 correctAnswer |-> None]
    IN  IF q.type = "fill_in_blank"
        THEN [base EXCEPT !.correctAnswer = q.answer]
        ELSE IF q.options # None
             THEN [base EXCEPT
                     !.options = Some([i \in 1..Len(q.options[1]) |->
                                         q.options[1][i].text]),
                     !.correctIndex = Some(FindIndex(q.options[1]))]
             ELSE base

processQuestions(raw) == [i \in 1..Len(raw) |-> ProcessQuestion(raw[i])]

RawOption(id, text, flag) == [id |-> id, text |-> text, is_correct |-> flag]

\* a dataset: a true/false question and a fill-in-blank question whose answer
\* carries an accent and a capital
RawBank ==
    << [id |-> 1, type |-> "true_false", type_description |-> "TF",
        question |-> "p1", answer |-> None, explanation |-> None,
        options |-> Some(<<RawOption("a", "Dung", TRUE),
                           RawOption("b", "Sai", FALSE)>>)],
       [id |-> 2, type |-> "fill_in_blank", type_description |-> "FB",
        question |-> "p2", answer |-> Some(<<"A_grave">>),
        explanation |-> None, options |-> None] >>

(***************************************************************************)
(* Progress store and its persisted document.                              *)
(*                                                                         *)
(* The localStorage item is a record: item = "absent" (getItem returns     *)
(* null), "empty" (the empty string), "garbage" (a text JSON.parse         *)
(* rejects) or "json" with the parsed value in `value`: kind "null",       *)
(* "number", or "object" with its own fields in `fields` (a function from  *)
(* field names to values).                                                 *)
(***************************************************************************)
EmptyProgress ==
    [seen |-> EmptyMap, wrong |-> EmptyMap, correct |-> EmptyMap,
     starred |-> EmptyMap]

NoValue == [kind |-> "none", fields |-> EmptyMap]
Absent == [item |-> "absent", value |-> NoValue]
JsonObject(fields) == [item |-> "json", value |-> [kind |-> "object", fields |-> fields]]

\* JSON.stringify(p) of a Progress value, as the stored item
Stringify(p) ==
    JsonObject([f \in {"seen", "wrong", "correct", "starred"} |->
                  CASE f = "seen" -> p.seen
                    [] f = "wrong" -> p.wrong
                    [] f = "correct" -> p.correct
                    [] OTHER -> p.starred])

\* mutant: a document that lacks one of the four maps is discarded as a whole
FieldOr_AllOrNothing(value, f) ==
    IF value.kind = "object"
       /\ {"seen", "wrong", "correct", "starred"} \subseteq DOMAIN value.fields
    THEN value.fields[f] ELSE EmptyMap

\* parsed.<f> ?? {} on a parsed value that is not null
FieldOr(value, f) ==
    IF value.kind = "object" /\ f \in DOMAIN value.fields
    THEN value.fields[f] ELSE EmptyMap

loadProgress(storage) ==
    IF storage.item \in {"absent", "empty"} THEN EmptyProgress  \* !raw: throw
    ELSE IF storage.item = "garbage" THEN EmptyProgress         \* JSON.parse throws
    ELSE IF storage.value.kind = "null" THEN EmptyProgress      \* parsed.seen throws
    ELSE [seen |-> FieldOr(storage.value, "seen"),
          wrong |-> FieldOr(storage.value, "wrong"),
          correct |-> FieldOr(storage.value, "correct"),
          starred |-> FieldOr(storage.value, "starred")]

\* mutant: the starred map is not written
saveProgress_DropsStarred(p) == Stringify([p EXCEPT !.starred = EmptyMap])

\* localStorage.setItem(LS_KEY, JSON.stringify(p)): the new item
saveProgress(p) == Stringify(p)

(***************************************************************************)
(* Sampler: shuffle and the body of the `filtered` memo.                   *)
(***************************************************************************)
\* mutant: a[i] = a[j] with the old a[i] lost
Swap_Overwrite(a, i, j) ==
    [k \in 1..Len(a) |-> IF k = i + 1 THEN a[j + 1] ELSE a[k]]

\* [a[i], a[j]] = [a[j], a[i]] with 0-based i, j
Swap(a, i, j) ==
    [k \in 1..Len(a) |-> IF k = i + 1 THEN a[j + 1]
                         ELSE IF k = j + 1 THEN a[i + 1] ELSE a[k]]

\* the sequences of values Math.random() may return: stream r gives
\* r[k % RandPeriod] / RandDen at its k-th call (k = 0, 1, ..)
RandomStreams == [0..(RandPeriod - 1) -> 0..(RandDen - 1)]

\* Math.floor(Math.random() * (i + 1)) at the k-th call of stream r
RandomIndex(r, k, i) == (r[k % RandPeriod] * (i + 1)) \div RandDen

RECURSIVE ShuffleLoop(_, _, _)
\* the for loop of shuffle from index i down
ShuffleLoop(a, i, r) ==
    IF i > 0
    THEN ShuffleLoop(Swap(a, i, RandomIndex(r, Len(a) - 1 - i, i)), i - 1, r)
    ELSE a

\* shuffle(arr) when Math.random() returns the values of stream r
shuffle(arr, r) == ShuffleLoop(arr, Len(arr) - 1, r)

\* list.slice(0, n)
Slice0(list, n) == SubSeq(list, 1, Min(n, Len(list)))

\* the size of a "random 20" session
Random20Size == 20

TypeFiltered(questions, f) ==
    IF f.type # "all"
    THEN SelectSeq(questions, LAMBDA q : q.type = f.type)
    ELSE questions

\* mutant: wrong >= correct
WrongOnlyFiltered_Geq(list, f, storage) ==
    IF f.mode = "wrongOnly"
    THEN LET currentProgress == loadProgress(storage)
         IN  SelectSeq(list, LAMBDA q : GetOr(currentProgress.wrong, q.id, 0)
                                          >= GetOr(currentProgress.correct, q.id, 0))
    ELSE list

WrongOnlyFiltered(list, f, storage) ==
    IF f.mode = "wrongOnly"
    THEN LET currentProgress == loadProgress(storage)
         IN  SelectSeq(list, LAMBDA q : GetOr(currentProgress.wrong, q.id, 0)
                                          > GetOr(currentProgress.correct, q.id, 0))
    ELSE list

Shuffled(list, f) ==
    IF f.shuffle THEN {shuffle(list, r) : r \in RandomStreams} ELSE {list}

\* mutant: the last elements are kept, not the first
Truncated_Tail(list, f) ==
    IF f.mode = "random20"
    THEN SubSeq(list, Len(list) - Min(Random20Size, Len(list)) + 1, Len(list))
    ELSE list

Truncated(list, f) ==
    IF f.mode = "random20"
    THEN Slice0(list, Min(Random20Size, Len(list)))
    ELSE list

\* every list the memo's function can return for these inputs
filteredMemo(questions, f, storage) ==
    {Truncated(l, f) :
        l \in Shuffled(WrongOnlyFiltered(TypeFiltered(questions, f), f, storage), f)}

(***************************************************************************)
(* State of the App component.                                             *)
(***************************************************************************)
VARIABLES
    QUESTIONS,      \* the processed question bank (module constant of App.tsx)
    filters,        \* useState: [type, mode, shuffle]
    progress,       \* useState: [seen, wrong, correct, starred]
    sessionKey,     \* useState: counter that forces the memo to recompute
    filtered,       \* useMemo: the working list of the last render
    memoDeps,       \* the dependencies the memo was last computed for
    idx,            \* useState: position in the working list
    selected,       \* useState: number | null
    fillValue,      \* useState: the text in the fill-in-blank field
    revealed,       \* useState: boolean
    isCorrect,      \* useState: boolean | null
    resetDeps,      \* dependencies last seen by the "reset states" effect
    filterDeps,     \* dependencies last seen by the "reset index" effect
    progressDirty,  \* progress is a new object since the persistence effect ran
    stored,         \* the localStorage item under LS_KEY
    phase,          \* "render", "effects", "idle", or "crashed" (a render threw)
    event           \* the user event being processed: [tag, did], the input
                    \* and what its handler did ("none" if it returned early)

vars == <<QUESTIONS, filters, progress, sessionKey, filtered, memoDeps, idx,
          selected, fillValue, revealed, isCorrect, resetDeps, filterDeps,
          progressDirty, stored, phase, event>>

\* what the event handlers can set
handlerVars == <<progress, progressDirty, idx, selected, fillValue, revealed,
                 isCorrect>>

\* const current = filtered[idx]
current == At(filtered, idx)
\* current?.id
currentId == IF current = None THEN None ELSE Some(current[1].id)
\* const total = filtered.length
total == Len(filtered)

MemoDepsNow == Some(<<filters.type, filters.mode, filters.shuffle, sessionKey>>)
ResetDepsNow == Some(<<idx, currentId>>)
FilterDepsNow == Some(<<filters.type, filters.mode, filters.shuffle>>)

(***************************************************************************)
(* Inputs.                                                                 *)
(***************************************************************************)
Modes == {"random20", "all", "wrongOnly"}

\* the values of the type selector: "all" and the types present in the bank
availableTypes == {QUESTIONS[i].type : i \in 1..Len(QUESTIONS)}
TypeChoices == {"all"} \cup availableTypes

\* texts typed into the field: nothing, a blank, a text that differs from the
\* expected answer in case, accent and spacing only, and a wrong text
FillInputs == {<<>>, <<" ">>, <<"a", " ">>, <<"b">>}

\* keys pressed
Keys == {"Enter", "CtrlBackspace", "0", "1", "2", "3"}

\* key presses, as <<e.target is an input element, e.key>>
KeyInputs == ({FALSE} \X Keys) \cup {<<TRUE, "Enter">>, <<TRUE, "1">>}

\* Number(e.key): -1 stands for NaN
KeyNumber(key) ==
    CASE key = "0" -> 0 [] key = "1" -> 1 [] key = "2" -> 2
      [] key = "3" -> 3 [] OTHER -> -1

\* the items localStorage may hold when the page is opened
InitialItems ==
    { Absent,
      [item |-> "empty", value |-> NoValue],
      [item |-> "garbage", value |-> NoValue],
      [item |-> "json", value |-> [kind |-> "null", fields |-> EmptyMap]],
      [item |-> "json", value |-> [kind |-> "number", fields |-> EmptyMap]],
      JsonObject([f \in {"wrong"} |-> [k \in {"2"} |-> 1]]) }

(***************************************************************************)
(* Progress updates (the setProgress updaters).                            *)
(***************************************************************************)
\* mutant: the previous count is dropped
markSeen_Overwrite(p, qid) == [p EXCEPT !.seen = Put(p.seen, qid, 1)]

markSeen(p, qid) == [p EXCEPT !.seen = Put(p.seen, qid, GetOr(p.seen, qid, 0) + 1)]

\* mutant: a correct answer takes one wrong answer back
markCorrect_ForgivesWrong(p, qid) ==
    [p EXCEPT !.correct = Put(p.correct, qid, GetOr(p.correct, qid, 0) + 1),
              !.wrong = IF GetOr(p.wrong, qid, 0) > 0
                        THEN Put(p.wrong, qid, p.wrong[qid] - 1)
                        ELSE p.wrong]

markCorrect(p, qid) ==
    [p EXCEPT !.correct = Put(p.correct, qid, GetOr(p.correct, qid, 0) + 1)]

markWrong(p, qid) ==
    [p EXCEPT !.wrong = Put(p.wrong, qid, GetOr(p.wrong, qid, 0) + 1)]

\* mutant: the star is set, never cleared
toggleStar_SetsTrue(p, qid) ==
    [p EXCEPT !.starred = Put(p.starred, qid, TRUE)]

toggleStar(p, qid) ==
    [p EXCEPT !.starred = Put(p.starred, qid, ~GetOr(p.starred, qid, FALSE))]

(***************************************************************************)
(* Handlers.  Each one says what the state variables of handlerVars become *)
(* and whether a render is queued.                                         *)
(***************************************************************************)
\* a handler that returns without a state update
NoUpdate == /\ UNCHANGED handlerVars
            /\ phase' = "idle"

\* mutant: a wrong answer is not counted as seen
Grade_NoSeenOnWrong(qid, ok) ==
    /\ progress' = IF ok THEN markCorrect(markSeen(progress, qid), qid)
                         ELSE markWrong(progress, qid)
    /\ progressDirty' = TRUE
    /\ isCorrect' = Some(ok)
    /\ revealed' = TRUE
    /\ phase' = "render"

\* the grading shared by handleOptionClick and checkFill:
\* markSeen, setIsCorrect(ok), markCorrect or markWrong, setRevealed(true)
Grade(qid, ok) ==
    /\ progress' = IF ok THEN markCorrect(markSeen(progress, qid), qid)
                         ELSE markWrong(markSeen(progress, qid), qid)
    /\ progressDirty' = TRUE
    /\ isCorrect' = Some(ok)
    /\ revealed' = TRUE
    /\ phase' = "render"

\* mutant: no early return when revealed
handleOptionClick_NoRevealedGuard(optIdx) ==
    IF current = None
    THEN NoUpdate
    ELSE /\ selected' = Some(optIdx)
         /\ Grade(current[1].id, Some(optIdx) = current[1].correctIndex)
         /\ UNCHANGED <<idx, fillValue>>

handleOptionClick(optIdx) ==
    IF revealed \/ current = None
    THEN NoUpdate
    ELSE /\ selected' = Some(optIdx)
         /\ Grade(current[1].id, Some(optIdx) = current[1].correctIndex)
         /\ UNCHANGED <<idx, fillValue>>

\* mutant: the texts are compared as typed
checkFill_RawCompare ==
    IF current = None \/ current[1].type # "fill_in_blank" \/ Trim(fillValue) = <<>>
    THEN NoUpdate
    ELSE /\ Grade(current[1].id,
                  fillValue = (IF current[1].correctAnswer = None THEN <<>>
                               ELSE current[1].correctAnswer[1]))
         /\ UNCHANGED <<idx, selected, fillValue>>

\* mutant: the text is tested without trim()
checkFill_NoTrim ==
    IF current = None \/ current[1].type # "fill_in_blank" \/ fillValue = <<>>
    THEN NoUpdate
    ELSE /\ Grade(current[1].id,
                  normalize(fillValue)
                    = normalize(IF current[1].correctAnswer = None THEN <<>>
                                ELSE current[1].correctAnswer[1]))
         /\ UNCHANGED <<idx, selected, fillValue>>

checkFill ==
    IF current = None \/ current[1].type # "fill_in_blank" \/ Trim(fillValue) = <<>>
    THEN NoUpdate
    ELSE /\ Grade(current[1].id,
                  normalize(fillValue)
                    = normalize(IF current[1].correctAnswer = None THEN <<>>
                                ELSE current[1].correctAnswer[1]))
         /\ UNCHANGED <<idx, selected, fillValue>>

\* mutant: no bound check
next_Unguarded ==
    /\ idx' = idx + 1
    /\ phase' = "render"
    /\ UNCHANGED <<progress, progressDirty, selected, fillValue, revealed, isCorrect>>

next ==
    IF idx < total - 1
    THEN /\ idx' = idx + 1
         /\ phase' = "render"
         /\ UNCHANGED <<progress, progressDirty, selected, fillValue, revealed, isCorrect>>
    ELSE NoUpdate

prev ==
    IF idx > 0
    THEN /\ idx' = idx - 1
         /\ phase' = "render"
         /\ UNCHANGED <<progress, progressDirty, selected, fillValue, revealed, isCorrect>>
    ELSE NoUpdate

\* mutant: Enter outside an input calls next() whether revealed or not
onKey_EnterAlwaysNext(inInput, key) ==
    IF current = None THEN NoUpdate
    ELSE IF inInput
    THEN IF key = "Enter"
         THEN IF ~revealed THEN checkFill ELSE next
         ELSE NoUpdate
    ELSE IF key = "Enter"
    THEN next
    ELSE IF key = "CtrlBackspace"
    THEN prev
    ELSE IF /\ current[1].type \in ChoiceTypes
            /\ ~revealed
            /\ current[1].options # None
            /\ KeyNumber(key) >= 1
            /\ KeyNumber(key) <= Len(current[1].options[1])
    THEN handleOptionClick(KeyNumber(key) - 1)
    ELSE NoUpdate

\* the keydown listener; inInput is e.target instanceof HTMLInputElement
onKey(inInput, key) ==
    IF current = None THEN NoUpdate
    ELSE IF inInput
    THEN IF key = "Enter"
         THEN IF ~revealed THEN checkFill ELSE next
         ELSE NoUpdate
    ELSE IF key = "Enter"
    THEN IF revealed THEN next ELSE NoUpdate
    ELSE IF key = "CtrlBackspace"
    THEN prev
    ELSE IF /\ current[1].type \in ChoiceTypes
            /\ ~revealed
            /\ current[1].options # None
            /\ KeyNumber(key) >= 1
            /\ KeyNumber(key) <= Len(current[1].options[1])
    THEN handleOptionClick(KeyNumber(key) - 1)
    ELSE NoUpdate

(***************************************************************************)
(* User events.  An event is taken when the previous one is fully          *)
(* processed; controls that are not rendered or are disabled give no event.*)
(***************************************************************************)
\* number of gradings the store records
RECURSIVE SumOver(_, _)
SumOver(m, keys) ==
    IF keys = {} THEN 0
    ELSE LET k == CHOOSE x \in keys : TRUE
         IN  m[k] + SumOver(m, keys \ {k})

Gradings == SumOver(progress.seen, DOMAIN progress.seen)

\* a step that records a grading stays within the bound
GradingRoom == (revealed' /\ ~revealed) => Gradings < MaxGradings

\* what a handler built from handleOptionClick, checkFill, next and prev did
Did == IF idx' # idx THEN "move"
       ELSE IF revealed' # revealed THEN "grade"
       ELSE "none"

Event(tag, did) == [tag |-> tag, did |-> did]

\* what no event handler touches
EventFrame == UNCHANGED <<QUESTIONS, filters, sessionKey, filtered, memoDeps,
                          resetDeps, filterDeps, stored>>

\* click on option i of the current choice question
ClickOption(i) ==
    /\ phase = "idle"
    /\ current # None
    /\ current[1].type \in ChoiceTypes
    /\ current[1].options # None
    /\ i \in 0..(Len(current[1].options[1]) - 1)
    /\ handleOptionClick(i)
    /\ GradingRoom
    /\ event' = Event("optionClick", Did)
    /\ EventFrame

KeyTag(inInput, key) ==
    IF inInput THEN (IF key = "Enter" THEN "enterInInput" ELSE "keyInInput")
    ELSE IF key = "Enter" THEN "enterKey"
    ELSE IF key = "CtrlBackspace" THEN "ctrlBackspace"
    ELSE "digitKey"

\* keydown on the window; the shuffle checkbox is an input element that is
\* always rendered, so a key can arrive with an input as its target
PressKey(inInput, key) ==
    /\ phase = "idle"
    /\ onKey(inInput, key)
    /\ GradingRoom
    /\ event' = Event(KeyTag(inInput, key), Did)
    /\ EventFrame

\* the "Kiem tra" button: rendered while not revealed, disabled on a blank text
ClickCheck ==
    /\ phase = "idle"
    /\ current # None
    /\ current[1].type = "fill_in_blank"
    /\ ~revealed
    /\ Trim(fillValue) # <<>>
    /\ checkFill
    /\ GradingRoom
    /\ event' = Event("checkButton", Did)
    /\ EventFrame

\* onChange of the text field (disabled once revealed)
TypeText(s) ==
    /\ phase = "idle"
    /\ current # None
    /\ current[1].type = "fill_in_blank"
    /\ ~revealed
    /\ s # fillValue
    /\ event' = Event("typeText", "text")
    /\ fillValue' = s
    /\ phase' = "render"
    /\ UNCHANGED <<progress, progressDirty, idx, selected, revealed, isCorrect>>
    /\ EventFrame

\* the "Cau tiep" button: rendered when revealed, disabled at the last position
ClickNext ==
    /\ phase = "idle"
    /\ current # None
    /\ revealed
    /\ ~(idx >= total - 1)
    /\ next
    /\ event' = Event("nextButton", Did)
    /\ EventFrame

\* the "Quay lai" button: disabled at position 0
ClickPrev ==
    /\ phase = "idle"
    /\ current # None
    /\ ~(idx = 0)
    /\ prev
    /\ event' = Event("prevButton", Did)
    /\ EventFrame

\* the star button of the current question
ClickStar ==
    /\ phase = "idle"
    /\ current # None
    /\ \/ current[1].id \in DOMAIN progress.starred
       \/ Cardinality(DOMAIN progress.starred) < MaxStarred
    /\ event' = Event("star", "star")
    /\ progress' = toggleStar(progress, current[1].id)
    /\ progressDirty' = TRUE
    /\ phase' = "render"
    /\ UNCHANGED <<idx, selected, fillValue, revealed, isCorrect>>
    /\ EventFrame

\* mutant: the wipe keeps the starred map
ClickReset_KeepsStarred(confirmed) ==
    /\ phase = "idle"
    /\ IF confirmed
       THEN /\ event' = Event("reset", "wipe")
            /\ stored' = Absent
            /\ progress' = [EmptyProgress EXCEPT !.starred = progress.starred]
            /\ progressDirty' = TRUE
            /\ phase' = "render"
       ELSE /\ event' = Event("reset", "none")
            /\ UNCHANGED <<stored, progress, progressDirty, phase>>
    /\ UNCHANGED <<QUESTIONS, filters, sessionKey, filtered, memoDeps, idx,
                   selected, fillValue, revealed, isCorrect, resetDeps, filterDeps>>

\* the Reset button; confirmed is the answer to confirm()
ClickReset(confirmed) ==
    /\ phase = "idle"
    /\ IF confirmed
       THEN /\ event' = Event("reset", "wipe")
            /\ stored' = Absent                \* localStorage.removeItem
            /\ progress' = EmptyProgress
            /\ progressDirty' = TRUE
            /\ phase' = "render"
       ELSE /\ event' = Event("reset", "none")
            /\ UNCHANGED <<stored, progress, progressDirty, phase>>
    /\ UNCHANGED <<QUESTIONS, filters, sessionKey, filtered, memoDeps, idx,
                   selected, fillValue, revealed, isCorrect, resetDeps, filterDeps>>

\* setFilters from one of the three filter controls
SetFilters(f, tag) ==
    /\ phase = "idle"
    /\ f # filters
    /\ sessionKey < MaxSessionKey
    /\ event' = Event(tag, "filters")
    /\ filters' = f
    /\ phase' = "render"
    /\ UNCHANGED <<QUESTIONS, progress, sessionKey, filtered, memoDeps, idx,
                   selected, fillValue, revealed, isCorrect, resetDeps,
                   filterDeps, progressDirty, stored>>

SetMode(m) == SetFilters([filters EXCEPT !.mode = m], "setMode")
SetType(t) == SetFilters([filters EXCEPT !.type = t], "setType")
SetShuffle(b) == SetFilters([filters EXCEPT !.shuffle = b], "setShuffle")

(***************************************************************************)
(* The render of App and its passive effects.                              *)
(***************************************************************************)
\* the JSX reads current.typeLabel and current.id whenever total is not 0
RenderThrows(list, i) == Len(list) # 0 /\ At(list, i) = None

\* mutant: the memo also depends on progress
Render_DependsOnProgress ==
    /\ phase = "render"
    /\ memoDeps' = MemoDepsNow
    /\ IF memoDeps # MemoDepsNow \/ progressDirty
       THEN filtered' \in filteredMemo(QUESTIONS, filters, saveProgress(progress))
       ELSE filtered' = filtered
    /\ phase' = IF RenderThrows(filtered', idx) THEN "crashed" ELSE "effects"
    /\ UNCHANGED <<QUESTIONS, filters, progress, sessionKey, idx, selected,
                   fillValue, revealed, isCorrect, resetDeps, filterDeps,
                   progressDirty, stored, event>>

Render ==
    /\ phase = "render"
    /\ memoDeps' = MemoDepsNow
    /\ IF memoDeps # MemoDepsNow
       THEN filtered' \in filteredMemo(QUESTIONS, filters, stored)
       ELSE filtered' = filtered
    /\ phase' = IF RenderThrows(filtered', idx) THEN "crashed" ELSE "effects"
    /\ UNCHANGED <<QUESTIONS, filters, progress, sessionKey, idx, selected,
                   fillValue, revealed, isCorrect, resetDeps, filterDeps,
                   progressDirty, stored, event>>

\* useEffect(() => saveProgress(progress), [progress])
SaveEffect ==
    /\ stored' = IF progressDirty THEN saveProgress(progress) ELSE stored
    /\ progressDirty' = FALSE

\* mutant: setRevealed(false) is missing
ResetStatesEffect_KeepsRevealed ==
    /\ resetDeps' = ResetDepsNow
    /\ IF resetDeps # ResetDepsNow
       THEN /\ selected' = None
            /\ fillValue' = <<>>
            /\ isCorrect' = None
            /\ UNCHANGED revealed
       ELSE UNCHANGED <<selected, fillValue, revealed, isCorrect>>

\* mutant: setSelected(null) is missing
ResetStatesEffect_KeepsSelected ==
    /\ resetDeps' = ResetDepsNow
    /\ IF resetDeps # ResetDepsNow
       THEN /\ fillValue' = <<>>
            /\ revealed' = FALSE
            /\ isCorrect' = None
            /\ UNCHANGED selected
       ELSE UNCHANGED <<selected, fillValue, revealed, isCorrect>>

\* "Reset states when question changes", deps [idx, current?.id]
ResetStatesEffect ==
    /\ resetDeps' = ResetDepsNow
    /\ IF resetDeps # ResetDepsNow
       THEN /\ selected' = None
            /\ fillValue' = <<>>
            /\ revealed' = FALSE
            /\ isCorrect' = None
       ELSE UNCHANGED <<selected, fillValue, revealed, isCorrect>>

\* "Reset index when filters change", deps [filters.type, .mode, .shuffle]
ResetIndexEffect ==
    /\ filterDeps' = FilterDepsNow
    /\ IF filterDeps # FilterDepsNow
       THEN /\ idx' = 0
            /\ sessionKey' = sessionKey + 1
       ELSE UNCHANGED <<idx, sessionKey>>

Effects ==
    /\ phase = "effects"
    /\ SaveEffect
    /\ ResetStatesEffect
    /\ ResetIndexEffect
    /\ phase' = IF resetDeps # ResetDepsNow \/ filterDeps # FilterDepsNow
                THEN "render" ELSE "idle"
    /\ UNCHANGED <<QUESTIONS, filters, progress, filtered, memoDeps, event>>

(***************************************************************************)
(* Specification.                                                          *)
(***************************************************************************)
\* the useState initialisers, before the first render
Init ==
    /\ QUESTIONS = processQuestions(RawBank)
    /\ filters = [type |-> "all", mode |-> "random20", shuffle |-> TRUE]
    /\ stored \in InitialItems
    /\ progress = loadProgress(stored)
    /\ sessionKey = 0
    /\ filtered = <<>>
    /\ memoDeps = None
    /\ idx = 0
    /\ selected = None
    /\ fillValue = <<>>
    /\ revealed = FALSE
    /\ isCorrect = None
    /\ resetDeps = None
    /\ filterDeps = None
    /\ progressDirty = TRUE
    /\ phase = "render"
    /\ event = Event("mount", "none")

Next ==
    \/ \E i \in 0..3 : ClickOption(i)
    \/ \E k \in KeyInputs : PressKey(k[1], k[2])
    \/ ClickCheck
    \/ \E s \in FillInputs : TypeText(s)
    \/ ClickNext
    \/ ClickPrev
    \/ ClickStar
    \/ \E confirmed \in BOOLEAN : ClickReset(confirmed)
    \/ \E m \in Modes : SetMode(m)
    \/ \E t \in TypeChoices : SetType(t)
    \/ \E b \in BOOLEAN : SetShuffle(b)
    \/ Render
    \/ Effects

Spec == Init /\ [][Next]_vars

(***************************************************************************)
(* Vocabulary of the claims.                                               *)
(***************************************************************************)
\* the question ids the bank or the store knows
KnownIds ==
    {QUESTIONS[i].id : i \in 1..Len(QUESTIONS)}
        \cup DOMAIN progress.seen \cup DOMAIN progress.correct
        \cup DOMAIN progress.wrong

seenCount(p, qid) == GetOr(p.seen, qid, 0)
correctCount(p, qid) == GetOr(p.correct, qid, 0)
wrongCount(p, qid) == GetOr(p.wrong, qid, 0)

\* the three counters of every id are the same in p and q
SameCounts(p, q, ids) ==
    \A id \in ids :
        /\ seenCount(p, id) = seenCount(q, id)
        /\ correctCount(p, id) = correctCount(q, id)
        /\ wrongCount(p, id) = wrongCount(q, id)

\* the session states of the specification
Answering == current # None /\ ~revealed
Revealed == current # None /\ revealed

\* a user event is taken in this step and its handler accepts a submission
SubmissionStep == phase = "idle" /\ ~revealed /\ revealed'

SubmitTags == {"optionClick", "digitKey", "checkButton", "enterInInput"}
FilterTags == {"setMode", "setType", "setShuffle"}

\* C1: an accepted submission adds exactly 1 to seenCount of the current
\* question and exactly 1 to one of its correctCount (graded correct) or
\* wrongCount (graded incorrect); the other counter of the two and every
\* counter of every other question id stay as they are.
C1_SubmissionCountsOnce ==
    [][SubmissionStep =>
        LET qid == current[1].id
        IN  /\ seenCount(progress', qid) = seenCount(progress, qid) + 1
            /\ \/ /\ isCorrect' = Some(TRUE)
                  /\ correctCount(progress', qid) = correctCount(progress, qid) + 1
                  /\ wrongCount(progress', qid) = wrongCount(progress, qid)
               \/ /\ isCorrect' = Some(FALSE)
                  /\ wrongCount(progress', qid) = wrongCount(progress, qid) + 1
                  /\ correctCount(progress', qid) = correctCount(progress, qid)
            /\ SameCounts(progress', progress, KnownIds \ {qid})
            /\ idx' = idx /\ filtered' = filtered]_vars

\* a second grading of the same question has been recorded, one correct and
\* one wrong, and the other question's counters are still untouched
C1_Witness ==
    /\ phase = "idle"
    /\ event.did = "grade"
    /\ current # None
    /\ seenCount(progress, current[1].id) = 2
    /\ correctCount(progress, current[1].id) = 1
    /\ wrongCount(progress, current[1].id) = 1
    /\ DOMAIN progress.seen = {current[1].id}

\* C2: once the current question is revealed, a further submission (option
\* click, digit key, fill-in-blank check by button or Enter) changes no
\* counter and leaves revealed, isCorrect, selected and fillValue as they are.
C2_ResubmitIsNoOp ==
    [][(phase = "idle" /\ revealed /\ event'.tag \in SubmitTags) =>
        /\ SameCounts(progress', progress, KnownIds)
        /\ progress' = progress
        /\ UNCHANGED <<revealed, isCorrect, selected, fillValue>>]_vars

\* an option click that found the question already revealed with the other
\* option selected, and did nothing
C2_Witness ==
    /\ phase = "idle"
    /\ event = Event("optionClick", "none")
    /\ revealed
    /\ selected # None
    /\ seenCount(progress, current[1].id) = 1

\* C3: whenever the working list is not empty, idx is a valid index of it at
\* every render (the states in which a render has taken place).
C3_PositionInRange ==
    (phase \in {"effects", "idle", "crashed"} /\ total # 0)
        => (0 <= idx /\ idx < total)

\* C4: after a change of type, mode or shuffle has been fully processed the
\* working list is one the memo computes for the new filters and idx is 0,
\* whatever idx was before.
C4_FilterChangeResetsPosition ==
    (event.tag \in FilterTags /\ phase \in {"idle", "crashed"})
        => /\ idx = 0
           /\ filtered \in filteredMemo(QUESTIONS, filters, stored)

RetreatTags == {"prevButton", "ctrlBackspace"}

\* C5: next at the last position and prev at position 0 change nothing: idx,
\* selected, fillValue, revealed, isCorrect, the working list, the store and
\* its persisted copy stay as they are and no render is queued or fails.
C5_BoundaryMovesAreNoOps ==
    [][(/\ phase = "idle"
        /\ current # None
        /\ \/ /\ idx = total - 1
              /\ \/ event'.tag \in {"nextButton", "enterKey"}
                 \/ event'.tag = "enterInInput" /\ revealed
           \/ /\ idx = 0
              /\ event'.tag \in RetreatTags)
       => /\ UNCHANGED <<idx, selected, fillValue, revealed, isCorrect,
                         filtered, progress, stored>>
          /\ phase' = "idle"]_vars

\* Enter pressed on the revealed last question of a two-question list
C5_Witness ==
    /\ phase = "idle"
    /\ event = Event("enterKey", "none")
    /\ revealed
    /\ total = 2
    /\ idx = total - 1

\* C6: every move to another position ends in Answering with nothing
\* selected, an empty text and no grade result, and no step of the move
\* changes the store (the counters of an earlier visit stay).
C6_MoveLandsInAnswering ==
    [][event'.did = "move" =>
        /\ progress' = progress
        /\ phase' = "idle" =>
              /\ current' # None
              /\ selected' = None
              /\ fillValue' = <<>>
              /\ ~revealed'
              /\ isCorrect' = None]_vars

\* back on a question graded earlier in the same list: Answering again, its
\* counters kept
C6_Witness ==
    /\ phase = "idle"
    /\ event.did = "move"
    /\ event.tag \in RetreatTags
    /\ sessionKey = 1
    /\ Answering
    /\ selected = None /\ isCorrect = None
    /\ seenCount(progress, current[1].id) >= 1

\* C7: a submission on a choice question is graded correct iff the submitted
\* option index equals correctIndex, one on a fill-in-blank question iff
\* normalize(input) equals normalize(correctAnswer); isCorrect and the
\* counter that is incremented agree with that verdict.
C7_GradeMatchesAnswer ==
    [][SubmissionStep =>
        LET q == current[1]
            verdict ==
                IF q.type = "fill_in_blank"
                THEN normalize(fillValue')
                       = normalize(IF q.correctAnswer = None THEN <<>>
                                   ELSE q.correctAnswer[1])
                ELSE selected' = q.correctIndex
        IN  /\ isCorrect' = Some(verdict)
            /\ q.type # "fill_in_blank" =>
                  /\ selected' # None
                  /\ selected'[1] \in 0..(Len(q.options[1]) - 1)
            /\ correctCount(progress', q.id)
                 = correctCount(progress, q.id) + (IF verdict THEN 1 ELSE 0)
            /\ wrongCount(progress', q.id)
                 = wrongCount(progress, q.id) + (IF verdict THEN 0 ELSE 1)]_vars

\* a typed answer that differs from the expected text was graded correct
C7_Witness ==
    /\ phase = "idle"
    /\ Revealed
    /\ current[1].type = "fill_in_blank"
    /\ isCorrect = Some(TRUE)
    /\ Some(fillValue) # current[1].correctAnswer
    /\ correctCount(progress, current[1].id) = 1

\* C8: between filter changes the working list keeps its elements and their
\* order: no step of a submit, advance, retreat, star or wipe event changes it.
C8_WorkingSetFrozen ==
    [][event'.tag \notin (FilterTags \cup {"mount"}) => filtered' = filtered]_vars

\* in wrongOnly mode the current question was answered and no longer has
\* wrong > correct, yet it is still the current question of the list
C8_Witness ==
    /\ phase = "idle"
    /\ filters.mode = "wrongOnly"
    /\ event.did = "grade"
    /\ Revealed
    /\ ~(wrongCount(progress, current[1].id) > correctCount(progress, current[1].id))

\* the bank positions of the questions that pass the type filter
TypeMatching == {i \in 1..Len(QUESTIONS) :
                    filters.type = "all" \/ QUESTIONS[i].type = filters.type}

\* C9: in wrongOnly mode the list computed at a filter change holds exactly
\* the type-matching questions with wrongCount > correctCount in the store as
\* it stands at that moment, each once.
C9_WrongOnlySnapshot ==
    (phase \in {"idle", "crashed"} /\ event.tag \in FilterTags
        /\ filters.mode = "wrongOnly")
      => LET want == {i \in TypeMatching :
                         wrongCount(progress, QUESTIONS[i].id)
                           > correctCount(progress, QUESTIONS[i].id)}
         IN  /\ {filtered[i].id : i \in 1..total} = {QUESTIONS[i].id : i \in want}
             /\ total = Cardinality(want)

\* switched to wrongOnly after a wrong answer: the list is that question
\* alone, the never answered one is left out
C9_Witness ==
    /\ phase = "idle"
    /\ event.tag = "setMode"
    /\ filters.mode = "wrongOnly"
    /\ filters.type = "all"
    /\ total = 1
    /\ seenCount(progress, current[1].id) >= 1
    /\ wrongCount(progress, current[1].id) > correctCount(progress, current[1].id)
    /\ \E i \in 1..Len(QUESTIONS) : QUESTIONS[i].id \notin DOMAIN progress.wrong

(***************************************************************************)
(* The sampler on its own: the memo's function applied, by one render, to  *)
(* banks, filters and stored documents drawn from bounded sets.            *)
(***************************************************************************)
\* a dataset of n entries whose types alternate
GenRaw(n) ==
    [i \in 1..n |->
        IF i % 3 = 0
        THEN [id |-> i, type |-> "fill_in_blank", type_description |-> "FB",
              question |-> "p", answer |-> Some(<<"a">>), explanation |-> None,
              options |-> None]
        ELSE [id |-> i,
              type |-> IF i % 3 = 1 THEN "true_false"
                       ELSE "multiple_choice_best_answer",
              type_description |-> "CH", question |-> "p", answer |-> None,
              explanation |-> None,
              options |-> Some(<<RawOption("a", "x", i % 2 = 0),
                                 RawOption("b", "y", i % 2 = 1)>>)]]

\* bank sizes: small ones, and the sizes around Random20Size
BankSizes == (0..3) \cup ((Random20Size - 1)..(Random20Size + 2))

\* stored documents: none, and one with counters on both sides of
\* wrong > correct, on early and late questions
SamplerItems ==
    { Absent,
      JsonObject([f \in {"wrong", "correct"} |->
                    IF f = "wrong"
                    THEN [k \in {"1", "2", "3", "21", "22"} |-> IF k = "3" THEN 1 ELSE 2]
                    ELSE [k \in {"2", "3", "5"} |-> IF k = "2" THEN 1 ELSE 2]]) }

SamplerInit ==
    /\ QUESTIONS \in {processQuestions(GenRaw(n)) : n \in BankSizes}
    /\ filters \in [type : {"all"} \cup QTypes, mode : Modes, shuffle : BOOLEAN]
    /\ stored \in SamplerItems
    /\ progress = loadProgress(stored)
    /\ sessionKey = 0
    /\ filtered = <<>>
    /\ memoDeps = None
    /\ idx = 0
    /\ selected = None
    /\ fillValue = <<>>
    /\ revealed = FALSE
    /\ isCorrect = None
    /\ resetDeps = None
    /\ filterDeps = None
    /\ progressDirty = FALSE
    /\ phase = "render"
    /\ event = Event("mount", "none")

SamplerNext == Render

SamplerSpec == SamplerInit /\ [][SamplerNext]_vars

IsDistinct(list) ==
    \A i, j \in 1..Len(list) : list[i] = list[j] => i = j

\* C10: in random20 mode the list has exactly min(20, n) elements, n being
\* the number of questions that pass the type filter; they are pairwise
\* distinct and all of them pass the type filter, with and without shuffle.
C10_Random20Size ==
    (phase = "effects" /\ filters.mode = "random20")
      => /\ total = Min(20, Cardinality(TypeMatching))
         /\ IsDistinct(filtered)
         /\ \A i \in 1..total : \E k \in TypeMatching : filtered[i] = QUESTIONS[k]

\* a shuffled bank of more than 20 questions cut down to 20, not the first
\* 20 of the bank
C10_Witness ==
    /\ phase = "effects"
    /\ filters = [type |-> "all", mode |-> "random20", shuffle |-> TRUE]
    /\ Len(QUESTIONS) > 20
    /\ total = 20
    /\ filtered # SubSeq(QUESTIONS, 1, 20)

\* the bank positions of the questions the filters retain: the type matches
\* and, in wrongOnly mode, the stored document has wrong > correct for them
Retained ==
    {i \in TypeMatching :
        filters.mode = "wrongOnly" =>
            wrongCount(loadProgress(stored), QUESTIONS[i].id)
              > correctCount(loadProgress(stored), QUESTIONS[i].id)}

\* the bank position of a question of the bank
BankPos(q) == CHOOSE k \in 1..Len(QUESTIONS) : QUESTIONS[k] = q

\* C11: with shuffle off the list holds retained questions in ascending bank
\* position, for every type and mode: all of them, or in random20 mode the
\* first min(20, n) of them with none skipped.
C11_BankOrderWithoutShuffle ==
    (phase = "effects" /\ ~filters.shuffle)
      => /\ \A i \in 1..total :
               \E k \in Retained : filtered[i] = QUESTIONS[k]
         /\ \A i, j \in 1..total :
               i < j => BankPos(filtered[i]) < BankPos(filtered[j])
         /\ total = IF filters.mode = "random20"
                    THEN Min(20, Cardinality(Retained))
                    ELSE Cardinality(Retained)
         /\ \A i \in 1..total : \A k \in Retained :
               k < BankPos(filtered[i])
                 => \E j \in 1..total : BankPos(filtered[j]) = k

\* a bank of more than 20 questions, no shuffle, random20: the list is the
\* first 20 questions of the bank, the 21st is left out
C11_Witness ==
    /\ phase = "effects"
    /\ filters = [type |-> "all", mode |-> "random20", shuffle |-> FALSE]
    /\ Len(QUESTIONS) > 20
    /\ total = 20
    /\ filtered[1] = QUESTIONS[1]
    /\ filtered[20] = QUESTIONS[20]

\* what the handler of the last user event did to the store
StoreEvents == {"grade", "star", "wipe"}

\* C12: once a grading, star toggle or wipe event is fully processed the
\* stored document is the JSON text of the in-memory store, and loading it
\* again gives that store back.
C12_WriteThrough ==
    (phase \in {"idle", "crashed"} /\ event.did \in StoreEvents)
      => /\ stored = saveProgress(progress)
         /\ loadProgress(stored) = progress

\* a star toggle after a grading: both are in the stored document
C12_Witness ==
    /\ phase = "idle"
    /\ event.did = "star"
    /\ Gradings >= 1
    /\ current[1].id \in DOMAIN progress.starred
    /\ stored.item = "json"
    /\ FieldOr(stored.value, "starred") = progress.starred
    /\ FieldOr(stored.value, "seen") = progress.seen

\* p.starred[id] read as a boolean
isStarred(p, qid) == GetOr(p.starred, qid, FALSE)

\* every query of the store p answers 0 or not starred
AllZero(p, ids) ==
    \A id \in ids :
        /\ seenCount(p, id) = 0
        /\ correctCount(p, id) = 0
        /\ wrongCount(p, id) = 0
        /\ ~isStarred(p, id)

BankIds == {QUESTIONS[i].id : i \in 1..Len(QUESTIONS)}

\* C13: from a confirmed wipe on (at each step of its processing and once it
\* is processed) the four maps are empty in memory and in what a reload would
\* read from the stored item, so every id answers count 0 and not starred.
C13_WipeEmptiesStore ==
    event.did = "wipe"
      => /\ DOMAIN progress.seen = {} /\ DOMAIN progress.wrong = {}
         /\ DOMAIN progress.correct = {} /\ DOMAIN progress.starred = {}
         /\ AllZero(progress, BankIds)
         /\ loadProgress(stored) = EmptyProgress
         /\ AllZero(loadProgress(stored), BankIds)
         /\ phase = "idle" => stored = saveProgress(EmptyProgress)

\* wiped while the graded current question is still shown: its counters are
\* back to 0 and the stored item is the document of the empty store
C13_Witness ==
    /\ phase = "idle"
    /\ event = Event("reset", "wipe")
    /\ Revealed
    /\ isCorrect = Some(FALSE)
    /\ seenCount(progress, current[1].id) = 0
    /\ wrongCount(loadProgress(stored), current[1].id) = 0
    /\ stored.item = "json"

\* the bound on starred ids leaves room for a toggle of the current question
StarRoom ==
    \/ current[1].id \in DOMAIN progress.starred
    \/ Cardinality(DOMAIN progress.starred) < MaxStarred

ProgressFields == {"seen", "wrong", "correct", "starred"}

\* a non-empty value of each map
SampleMap(f) ==
    CASE f = "seen" -> [k \in {"1"} |-> 2]
      [] f = "wrong" -> [k \in {"2"} |-> 1]
      [] f = "correct" -> [k \in {"1"} |-> 1]
      [] OTHER -> [k \in {"2"} |-> TRUE]

\* stored items: no item, the empty text, a text that is not JSON, JSON null,
\* a JSON number, and objects holding any subset of the four maps, each map
\* empty or not
LoaderItems ==
    { Absent,
      [item |-> "empty", value |-> NoValue],
      [item |-> "garbage", value |-> NoValue],
      [item |-> "json", value |-> [kind |-> "null", fields |-> EmptyMap]],
      [item |-> "json", value |-> [kind |-> "number", fields |-> EmptyMap]] }
    \cup { JsonObject([f \in S |-> IF f \in E THEN EmptyMap ELSE SampleMap(f)]) :
             S \in SUBSET ProgressFields, E \in SUBSET ProgressFields }

LoaderInit ==
    /\ QUESTIONS = processQuestions(RawBank)
    /\ filters = [type |-> "all", mode |-> "random20", shuffle |-> TRUE]
    /\ stored \in LoaderItems
    /\ progress = loadProgress(stored)
    /\ sessionKey = 0
    /\ filtered = <<>>
    /\ memoDeps = None
    /\ idx = 0
    /\ selected = None
    /\ fillValue = <<>>
    /\ revealed = FALSE
    /\ isCorrect = None
    /\ resetDeps = None
    /\ filterDeps = None
    /\ progressDirty = TRUE
    /\ phase = "render"
    /\ event = Event("mount", "none")

LoaderNext == Render \/ Effects

LoaderSpec == LoaderInit /\ [][LoaderNext]_vars

\* p is a store: the three counter maps hold natural numbers, starred booleans
IsStore(p) ==
    /\ DOMAIN p = ProgressFields
    /\ \A k \in DOMAIN p.seen : p.seen[k] \in Nat
    /\ \A k \in DOMAIN p.wrong : p.wrong[k] \in Nat
    /\ \A k \in DOMAIN p.correct : p.correct[k] \in Nat
    /\ \A k \in DOMAIN p.starred : p.starred[k] \in BOOLEAN

\* the stored item is a JSON text whose value has a field f
HasField(storage, f) ==
    /\ storage.item = "json"
    /\ storage.value.kind = "object"
    /\ f \in DOMAIN storage.value.fields

\* C15: loadProgress returns a store for every stored item: the empty store
\* when there is no item or its text does not parse, and otherwise the maps
\* the parsed value has, with an empty map for each one it lacks; the App
\* starts from that store and its mount never fails.
C15_LoadNeverFails ==
    LET p == loadProgress(stored)
    IN  /\ IsStore(p)
        /\ stored.item \in {"absent", "empty", "garbage"} => p = EmptyProgress
        /\ \A f \in ProgressFields :
              IF HasField(stored, f)
              THEN p[f] = stored.value.fields[f]
              ELSE DOMAIN p[f] = {}
        /\ memoDeps = None => progress = p
        /\ phase # "crashed"

\* the App starts on a document that has only the wrong and starred maps:
\* these two are loaded, seen and correct are empty
C15_Witness ==
    /\ memoDeps = None
    /\ DOMAIN stored.value.fields = {"wrong", "starred"}
    /\ progress.wrong = SampleMap("wrong")
    /\ progress.starred = SampleMap("starred")
    /\ DOMAIN progress.seen = {}
    /\ DOMAIN progress.correct = {}

\* the digit keys whose number is not a 1-based option position of q
DigitsOutOfRange(q) ==
    {k \in Keys : /\ KeyNumber(k) # -1
                  /\ KeyNumber(k) \notin 1..Len(q.options[1])}

\* C16: in Answering, a submission of an empty or blank text on a
\* fill-in-blank question, and a digit key whose number is outside
\* 1..len(options) on a choice question, do nothing: revealed stays false,
\* isCorrect null, selected, the text, idx, the list, the store and its stored
\* document are unchanged and no render is queued.
C16_InvalidInputIsNoOp ==
    [][(/\ phase = "idle"
        /\ Answering
        /\ \/ /\ current[1].type = "fill_in_blank"
              /\ Trim(fillValue) = <<>>
              /\ event'.tag \in {"enterInInput", "checkButton"}
           \/ /\ current[1].type \in ChoiceTypes
              /\ \E k \in DigitsOutOfRange(current[1]) : PressKey(FALSE, k))
       => /\ UNCHANGED <<revealed, isCorrect, selected, fillValue, idx,
                         filtered, progress, stored>>
          /\ SameCounts(progress', progress, KnownIds)
          /\ ~revealed' /\ isCorrect' = None
          /\ Answering'
          /\ phase' = "idle"]_vars

\* Enter in the text field holding one blank: nothing was graded
C16_Witness ==
    /\ phase = "idle"
    /\ event = Event("enterInInput", "none")
    /\ Answering
    /\ current[1].type = "fill_in_blank"
    /\ fillValue = <<" ">>
    /\ isCorrect = None
    /\ seenCount(progress, current[1].id) = 0

(***************************************************************************)
(* The bank loader on its own: the App is mounted on the questions that    *)
(* processQuestions makes of datasets whose choice entries have no, one or *)
(* several options flagged correct.                                        *)
(***************************************************************************)
\* largest number of entries of a dataset
MaxBank == 1

\* the is_correct flags of the options of a choice entry: 2 or 3 options
FlagLists == [1..2 -> BOOLEAN] \cup [1..3 -> BOOLEAN]

\* entry number i: a fill-in-blank entry, or a choice entry with these flags
FillEntry(i) ==
    [id |-> i, type |-> "fill_in_blank", type_description |-> "FB",
     question |-> "p", answer |-> Some(<<"a">>), explanation |-> None,
     options |-> None]

ChoiceEntry(i, t, flags) ==
    [id |-> i, type |-> t, type_description |-> "CH", question |-> "p",
     answer |-> None, explanation |-> None,
     options |-> Some([k \in 1..Len(flags) |->
                         RawOption(ToString(k), <<"o", ToString(k)>>, flags[k])])]

RawEntries(i) ==
    {FillEntry(i)} \cup {ChoiceEntry(i, t, fl) : t \in ChoiceTypes, fl \in FlagLists}

\* the datasets of 1..MaxBank entries, entry i having id i
RECURSIVE RawBanksOfLen(_)
RawBanksOfLen(n) ==
    IF n = 0 THEN {<<>>}
    ELSE {Append(b, e) : b \in RawBanksOfLen(n - 1), e \in RawEntries(n)}

RawBanks == UNION {RawBanksOfLen(n) : n \in 1..MaxBank}

DatasetInit ==
    /\ QUESTIONS \in {processQuestions(raw) : raw \in RawBanks}
    /\ filters = [type |-> "all", mode |-> "random20", shuffle |-> TRUE]
    /\ stored = Absent
    /\ progress = loadProgress(stored)
    /\ sessionKey = 0
    /\ filtered = <<>>
    /\ memoDeps = None
    /\ idx = 0
    /\ selected = None
    /\ fillValue = <<>>
    /\ revealed = FALSE
    /\ isCorrect = None
    /\ resetDeps = None
    /\ filterDeps = None
    /\ progressDirty = TRUE
    /\ phase = "render"
    /\ event = Event("mount", "none")

DatasetNext == Render \/ Effects

DatasetSpec == DatasetInit /\ [][DatasetNext]_vars

\* the 0-based positions of the options of raw entry r flagged correct
Flagged(r) ==
    IF r.options = None THEN {}
    ELSE {k \in 0..(Len(r.options[1]) - 1) : r.options[1][k + 1].is_correct}

\* question q, made from raw entry r, has the fields of its kind and no
\* others, and its correctIndex is the position of the first flagged option
WellFormed(q, r) ==
    IF q.type = "fill_in_blank"
    THEN /\ q.correctAnswer # None
         /\ q.options = None /\ q.correctIndex = None
    ELSE /\ q.options # None /\ q.correctIndex # None
         /\ q.correctAnswer = None
         /\ Len(q.options[1]) = Len(r.options[1])
         /\ 0 <= q.correctIndex[1]
         /\ q.correctIndex[1] < Len(q.options[1])
         /\ q.correctIndex[1] \in Flagged(r)
         /\ \A k \in Flagged(r) : q.correctIndex[1] <= k

\* C17: every question processQuestions produces has exactly the fields of
\* its kind, and for a choice question correctIndex is a valid position of
\* an option flagged correct, the first one if several are flagged; no
\* question outside this is produced when no option is flagged.
C17_LoaderInvariant ==
    \A raw \in RawBanks :
        QUESTIONS = processQuestions(raw)
          => \A i \in 1..Len(raw) : WellFormed(QUESTIONS[i], raw[i])

\* no counter of p is below 0
NonNegative(p, ids) ==
    \A id \in ids :
        seenCount(p, id) >= 0 /\ correctCount(p, id) >= 0 /\ wrongCount(p, id) >= 0

\* no counter is smaller in q than in p
NotDecreased(p, q, ids) ==
    \A id \in ids :
        /\ seenCount(q, id) >= seenCount(p, id)
        /\ correctCount(q, id) >= correctCount(p, id)
        /\ wrongCount(q, id) >= wrongCount(p, id)

\* C18: the three counters of every id are never negative, and no step
\* makes one of them smaller, except the click that confirms the wipe.
C18_CountersMonotone ==
    /\ [](NonNegative(progress, KnownIds))
    /\ [][(phase = "idle" /\ event'.did = "wipe")
            \/ NotDecreased(progress, progress', KnownIds)]_vars

\* a question answered twice, then a filter change: both gradings are still
\* counted when the change is processed
C18_Witness ==
    /\ phase = "idle"
    /\ event.tag \in FilterTags
    /\ \E id \in KnownIds :
          /\ seenCount(progress, id) = 2
          /\ correctCount(progress, id) + wrongCount(progress, id) >= 2

(***************************************************************************)
(* The normalizer on its own: the App shows one fill-in-blank question,    *)
(* texts are typed into its field one character at a time and checked.     *)
(***************************************************************************)
\* the characters typed: lower and upper case, a digit, an accented capital,
\* a combining mark, punctuation, the space and the tab
TextChars == {"a", "A", "1", "A_grave", "comb_grave", "-", " ", "tab"}

\* onChange after one more character is typed
TypeChar(c) ==
    /\ Len(fillValue) < MaxTextLen
    /\ TypeText(Append(fillValue, c))

NormalizeInit ==
    /\ QUESTIONS = processQuestions(<<RawBank[2]>>)
    /\ filters = [type |-> "all", mode |-> "random20", shuffle |-> TRUE]
    /\ stored = Absent
    /\ progress = loadProgress(stored)
    /\ sessionKey = 0
    /\ filtered = <<>>
    /\ memoDeps = None
    /\ idx = 0
    /\ selected = None
    /\ fillValue = <<>>
    /\ revealed = FALSE
    /\ isCorrect = None
    /\ resetDeps = None
    /\ filterDeps = None
    /\ progressDirty = TRUE
    /\ phase = "render"
    /\ event = Event("mount", "none")

NormalizeNext ==
    \/ \E c \in TextChars : TypeChar(c)
    \/ ClickCheck
    \/ Render
    \/ Effects

NormalizeSpec == NormalizeInit /\ [][NormalizeNext]_vars

\* t holds only [a-z0-9] and single spaces, none of them first or last
IsNormalForm(t) ==
    /\ \A i \in 1..Len(t) : t[i] \in AlphaNum \cup {" "}
    /\ t # <<>> => (t[1] # " " /\ t[Len(t)] # " ")
    /\ \A i \in 1..(Len(t) - 1) : ~(t[i] = " " /\ t[i + 1] = " ")

\* C19: for every text in the field, normalize applied to its own result
\* gives that result again, and the result holds only [a-z0-9] and single
\* interior spaces, with no space first or last; the same for the expected
\* answer of the question.
C19_NormalizeIdempotent ==
    /\ normalize(normalize(fillValue)) = normalize(fillValue)
    /\ IsNormalForm(normalize(fillValue))
    /\ \A i \in 1..Len(QUESTIONS) :
          QUESTIONS[i].correctAnswer # None
            => LET a == QUESTIONS[i].correctAnswer[1]
               IN  /\ normalize(normalize(a)) = normalize(a)
                   /\ IsNormalForm(normalize(a))

\* a checked text with an accented capital, punctuation, a tab and a digit:
\* its normal form is shorter than the text and not the expected answer
C19_Witness ==
    /\ phase = "idle"
    /\ Revealed
    /\ fillValue = <<"A_grave", "-", "tab", "1">>
    /\ normalize(fillValue) = <<"a", " ", "1">>
    /\ isCorrect = Some(FALSE)

\* the inputs that can call next()
AdvanceTags == {"nextButton", "enterKey", "enterInInput"}

\* C20: idx grows only by 1, only in a step of the next button or of Enter
\* (outside or inside an input element), and only when the current question
\* is revealed with its grade shown; in Revealed at a position that is not
\* the last, each of these inputs moves to idx + 1.
C20_AdvanceOnlyWhenRevealed ==
    /\ [][idx' > idx =>
            /\ phase = "idle"
            /\ event'.tag \in AdvanceTags
            /\ Revealed /\ isCorrect # None
            /\ idx' = idx + 1]_vars
    /\ [][(phase = "idle" /\ Revealed /\ idx < total - 1
              /\ event'.tag \in AdvanceTags)
            => (idx' = idx + 1 /\ filtered' = filtered)]_vars
    /\ [][(phase = "idle" /\ Answering /\ event'.tag \in AdvanceTags)
            => idx' = idx]_vars

\* Enter inside an input element on the revealed first question moved on to
\* the second one
C20_Witness ==
    /\ phase = "idle"
    /\ event = Event("enterInInput", "move")
    /\ idx = 1
    /\ Answering
    /\ \E id \in KnownIds : seenCount(progress, id) = 1

\* every id of the store p has seen = correct + wrong
Balanced(p) ==
    \A id \in DOMAIN p.seen \cup DOMAIN p.correct \cup DOMAIN p.wrong :
        seenCount(p, id) = correctCount(p, id) + wrongCount(p, id)

\* C21: the empty store has seen = correct + wrong for every id, so has the
\* store right after a confirmed wipe, and every step (of a submit, advance,
\* retreat, star toggle, filter change or wipe, and of the renders and
\* effects that process them) keeps that equality once it holds; so it holds
\* in every state reached from an empty or wiped store.
C21_SeenIsCorrectPlusWrong ==
    /\ [](progress = EmptyProgress => Balanced(progress))
    /\ [][(phase = "idle" /\ event'.did = "wipe") => Balanced(progress')]_vars
    /\ [][Balanced(progress) => Balanced(progress')]_vars

\* both questions of the bank answered, one correctly and one not: each has
\* seen = 1 = correct + wrong
C21_Witness ==
    /\ phase = "idle"
    /\ event.did = "grade"
    /\ Cardinality(DOMAIN progress.seen) = 2
    /\ Cardinality(DOMAIN progress.correct) = 1
    /\ Cardinality(DOMAIN progress.wrong) = 1
    /\ DOMAIN progress.correct # DOMAIN progress.wrong
    /\ Balanced(progress)

\* the Empty state of the session: the working list has no element
Empty == total = 0

\* C22: once a change of type, mode or shuffle is fully processed the
\* session is Empty, or in Answering at position 0 with nothing selected, an
\* empty text and no grade result: nothing of the previous list's reveal
\* carries over, whatever the position and the first question were.
C22_FilterChangeStartsFresh ==
    (phase = "idle" /\ event.tag \in FilterTags)
      => \/ Empty
         \/ /\ idx = 0
            /\ Answering
            /\ selected = None
            /\ fillValue = <<>>
            /\ isCorrect = None

\* C23: in every settled state (no render or effect pending) revealed is
\* true iff there is a grade result; while not revealed no option is
\* selected; and on a revealed choice question the selected option is a
\* valid position of its options and the result is correct iff it is
\* correctIndex.
C23_SessionStateConsistent ==
    phase = "idle"
      => /\ revealed <=> isCorrect # None
         /\ ~revealed => selected = None
         /\ (Revealed /\ current[1].type \in ChoiceTypes)
               => /\ selected # None
                  /\ selected[1] \in 0..(Len(current[1].options[1]) - 1)
                  /\ isCorrect = Some(selected = current[1].correctIndex)
         /\ revealed => current # None

\* a choice question revealed with the wrong option selected and graded
\* incorrect, after a filter change kept it as the first question
C23_Witness ==
    /\ phase = "idle"
    /\ event.tag \in FilterTags
    /\ Revealed
    /\ current[1].type \in ChoiceTypes
    /\ selected # None
    /\ selected # current[1].correctIndex
    /\ isCorrect = Some(FALSE)

====
